---- MODULE Spec2Model ----
(***************************************************************************)
(* A model of app.py: a Streamlit page that builds a search query from     *)
(* region / target checkboxes and free text, sends it to SERPAPI, shows    *)
(* the normalised results and saves the ticked rows to a CSV file.         *)
(*                                                                         *)
(* Python strings are TLA+ strings; TLC evaluates Len, \o and SubSeq on    *)
(* them, so every string function below works character by character as    *)
(* the Python built-in it stands for does.                                 *)
(***************************************************************************)
EXTENDS Integers, Sequences, FiniteSets, TLC

VARIABLES
    region_checked,    \* st.checkbox(key="region_<name>") values that are True
    target_checked,    \* st.checkbox(key="target_<name>") values that are True
    terms_input,       \* the "Additional search terms" text input
    search_results,    \* st.session_state.search_results: None or the rows
    edited_selected,   \* rows ticked in st.data_editor (edited_df['selected'])
    origin,            \* history: the search that assigned search_results
    run,               \* what the last script run of main() did
    call,              \* a direct call of one function: its arguments
    result             \* ... and what it returned

vars == <<region_checked, target_checked, terms_input, search_results,
          edited_selected, origin, run, call, result>>

app_vars == <<region_checked, target_checked, terms_input, search_results,
              edited_selected, origin, run>>

-----------------------------------------------------------------------------
(* Bounds of the model.                                                    *)

MaxTextLen == 5        \* longest enumerated text handed to truncate_summary
MaxWords == 3          \* largest enumerated max_words (besides the default)
MaxHits == 2           \* most organic results in a modelled provider response
MaxQueryLen == 4       \* longest enumerated query handed to save_selected_results

-----------------------------------------------------------------------------
(* Python string built-ins.                                                *)

Min(a, b) == IF a <= b THEN a ELSE b

Ch(s, i) == SubSeq(s, i, i)

\* str.isspace() for one character (the ASCII whitespace of str.split()).
IsSpace(c) == c \in {" ", "\t", "\n", "\r", "\f"}

UpperLetters == "ABCDEFGHIJKLMNOPQRSTUVWXYZ"
LowerLetters == "abcdefghijklmnopqrstuvwxyz"
Digits == "0123456789"

CharsOf(s) == { Ch(s, i) : i \in 1..Len(s) }

UpperChars == CharsOf(UpperLetters)
AlnumChars == CharsOf(UpperLetters) \cup CharsOf(LowerLetters) \cup CharsOf(Digits)

\* str.isalnum() for one character.
IsAlnum(c) == c \in AlnumChars

\* str.lower() for one character.
LowerCh(c) ==
    IF c \in UpperChars
    THEN Ch(LowerLetters, CHOOSE i \in 1..Len(UpperLetters) : Ch(UpperLetters, i) = c)
    ELSE c

\* The concatenation of the strings of parts[lo..hi], by halves.
RECURSIVE ConcatRange(_, _, _)
ConcatRange(parts, lo, hi) ==
    IF lo > hi THEN ""
    ELSE IF lo = hi THEN parts[lo]
    ELSE LET mid == (lo + hi) \div 2
         IN  ConcatRange(parts, lo, mid) \o ConcatRange(parts, mid + 1, hi)

\* "".join(parts)
Concat(parts) == ConcatRange(parts, 1, Len(parts))

\* s.lower()
Lower(s) == Concat([i \in 1..Len(s) |-> LowerCh(Ch(s, i))])

\* sep.join(parts)
Join(sep, parts) ==
    Concat([i \in 1..(2 * Len(parts) - 1) |-> IF i % 2 = 1 THEN parts[(i + 1) \div 2] ELSE sep])

\* range(len(s)), counted from 1.
Indices(s) == [i \in 1..Len(s) |-> i]

\* text.split(): the maximal runs of non-whitespace characters, in order.
\* A word starts where a non-whitespace character follows whitespace or
\* opens the text, and ends where whitespace or the end of the text follows.
Split(s) ==
    LET Solid(i) == ~IsSpace(Ch(s, i))
        starts == SelectSeq(Indices(s), LAMBDA i : Solid(i) /\ (i = 1 \/ ~Solid(i - 1)))
        ends == SelectSeq(Indices(s), LAMBDA i : Solid(i) /\ (i = Len(s) \/ ~Solid(i + 1)))
    IN  [k \in 1..Len(starts) |-> SubSeq(s, starts[k], ends[k])]

\* s.split(sep) for a one-character sep: the segments between consecutive
\* separators, empty ones included.
SplitOn(s, sep) ==
    LET cuts == SelectSeq(Indices(s), LAMBDA i : Ch(s, i) = sep)
        From(k) == IF k = 1 THEN 1 ELSE cuts[k - 1] + 1
        To(k) == IF k = Len(cuts) + 1 THEN Len(s) ELSE cuts[k] - 1
    IN  [k \in 1..(Len(cuts) + 1) |-> SubSeq(s, From(k), To(k))]

\* s.startswith(p)
StartsWith(s, p) == Len(p) <= Len(s) /\ SubSeq(s, 1, Len(p)) = p

\* s.replace(old, new) for a non-empty old: the non-overlapping occurrences
\* of old, found left to right in one pass from index i, are replaced.
RECURSIVE ReplaceFrom(_, _, _, _)
ReplaceFrom(s, i, old, new) ==
    IF i > Len(s) THEN ""
    ELSE IF i + Len(old) - 1 <= Len(s) /\ SubSeq(s, i, i + Len(old) - 1) = old
         THEN new \o ReplaceFrom(s, i + Len(old), old, new)
         ELSE Ch(s, i) \o ReplaceFrom(s, i + 1, old, new)

Replace(s, old, new) == ReplaceFrom(s, 1, old, new)

\* s[first:last + 1] for the ascending indices at, "" when there are none.
Between(s, at) == IF at = <<>> THEN "" ELSE SubSeq(s, at[1], at[Len(at)])

\* s.strip(): from the first to the last non-whitespace character.
Strip(s) == Between(s, SelectSeq(Indices(s), LAMBDA i : ~IsSpace(Ch(s, i))))

\* "".join(x for x in s if keep(x)) with the keep of save_selected_results.
KeepFilenameChars(s) ==
    Concat([i \in 1..Len(s) |->
              IF IsAlnum(Ch(s, i)) \/ Ch(s, i) \in {" ", "-", "_"} THEN Ch(s, i) ELSE ""])

\* seq[:n] for n >= 0, on a list or a string.
Prefix(seq, n) == SubSeq(seq, 1, Min(n, Len(seq)))

\* filter(None, parts): the non-empty strings of parts.
NonEmpty(parts) == SelectSeq(parts, LAMBDA part : part # "")

\* The strings of length at most n over the characters of alphabet.
RECURSIVE StringsUpTo(_, _)
StringsUpTo(alphabet, n) ==
    IF n = 0 THEN {""}
    ELSE LET shorter == StringsUpTo(alphabet, n - 1)
         IN  shorter \cup { s \o c : s \in { t \in shorter : Len(t) = n - 1 },
                                      c \in CharsOf(alphabet) }

\* s * n
Repeat(s, n) == Concat([i \in 1..n |-> s])

-----------------------------------------------------------------------------
(* truncate_summary                                                        *)

DefaultMaxWords == 50

\* A deliberately wrong variant, which the property below must reject: the ellipsis appended as a token of its own.
truncate_summary_spaced(text, max_words) ==
    LET words == Split(text)
    IN  IF Len(words) <= max_words THEN text
        ELSE Join(" ", Prefix(words, max_words)) \o " ..."

truncate_summary(text, max_words) ==
    LET words == Split(text)
    IN  IF Len(words) <= max_words THEN text
        ELSE Join(" ", Prefix(words, max_words)) \o "..."

-----------------------------------------------------------------------------
(* The catalogs: Python dicts, which iterate in insertion order, as        *)
(* sequences of <<key, value>>.                                            *)

REGIONS ==
    << <<"Poland", "pl">>, <<"Czech Republic", "cz">>, <<"Romania", "ro">>,
       <<"France", "fr">>, <<"Saudi Arabia", "sa">> >>

TARGETS ==
    << <<"luxury travel market", "luxury travel market trends analysis">>,
       <<"outbound luxury travel", "outbound luxury travel market trends analysis">>,
       <<"airline news", "airline industry news updates">>,
       <<"exclusive travel", "exclusive VIP travel experiences premium">> >>

\* d[key] for a key of d.
Lookup(d, key) == d[CHOOSE i \in 1..Len(d) : d[i][1] = key][2]

Range(seq) == { seq[i] : i \in 1..Len(seq) }

\* The sequences that list each element of the set S once.
Orders(S) ==
    { o \in [1..Cardinality(S) -> S] : \A i, j \in 1..Cardinality(S) : o[i] = o[j] => i = j }

-----------------------------------------------------------------------------
(* build_search_query                                                      *)

\* [TARGETS[target] for target in selected_targets]
MapTargets(selected_targets) ==
    [i \in 1..Len(selected_targets) |-> Lookup(TARGETS, selected_targets[i])]

build_search_query(selected_regions, selected_targets, additional_terms) ==
    LET region_terms == [i \in 1..Len(selected_regions) |-> "in " \o selected_regions[i]]
        query_parts ==
            MapTargets(selected_targets)
            \o (IF region_terms # <<>> THEN <<Join(" OR ", region_terms)>> ELSE <<>>)
            \o (IF additional_terms # "" THEN <<additional_terms>> ELSE <<>>)
    IN  Join(" ", query_parts)

\* dict.keys() in iteration order.
KeySeq(catalog) == [i \in 1..Len(catalog) |-> catalog[i][1]]

Reverse(seq) == [i \in 1..Len(seq) |-> seq[Len(seq) + 1 - i]]

\* A deliberately wrong variant, which the property below must reject: the ticked boxes collected last to first.
CheckedInOrder_reversed(catalog, checked) ==
    SelectSeq(Reverse(KeySeq(catalog)), LAMBDA key : key \in checked)

\* main's two loops over REGIONS.items() / TARGETS.items(): the keys whose
\* checkbox is ticked, appended in the catalog's iteration order.
CheckedInOrder(catalog, checked) ==
    SelectSeq(KeySeq(catalog), LAMBDA key : key \in checked)

-----------------------------------------------------------------------------
(* search_serpapi                                                          *)

\* A JSON value where a string is expected: a string, absent, null or a number.
JStr(s) == [t |-> "str", s |-> s]
JMissing == [t |-> "missing", s |-> ""]
JNull == [t |-> "null", s |-> ""]
JNum == [t |-> "num", s |-> ""]

\* An entry of organic_results: a JSON object with the three fields, or a
\* value that is no object (a string, a number, null, a list).
Hit(title, snippet, link) == [t |-> "obj", title |-> title, snippet |-> snippet, link |-> link]
NonObject == [t |-> "other", title |-> JMissing, snippet |-> JMissing, link |-> JMissing]

\* result.get(field, default)
Get(field, default) == IF field.t = "missing" THEN JStr(default) ELSE field

\* What the provider's answer can be.  kind: "network_error" (requests.get
\* raises), "http_error" (raise_for_status raises), "invalid_json"
\* (response.json() raises), "json_not_object" (the body is JSON but no
\* object), "json_object".  organic: the body's organic_results, t one of
\* "missing", "null", "num", "obj", "str", "list"; items are the list's
\* entries (a string's characters, each no object).
Response(kind, t, items) == [kind |-> kind, organic |-> [t |-> t, items |-> items]]

\* What differs between the installations the program runs on: whether
\* response.json() raises requests' JSONDecodeError, a RequestException
\* (requests >= 2.27), or a bare ValueError; and whether a dict indexed by a
\* slice raises KeyError (Python >= 3.12, slices hash) or TypeError.
Envs == [json_error_is_request_exception : BOOLEAN, slice_is_hashable : BOOLEAN]

\* The request's params dict; gl and hl are "" when absent.
Params(query, api_key, num_results, region) ==
    [q |-> query, api_key |-> api_key, engine |-> "google", num |-> num_results,
     gl |-> region, hl |-> IF region # "" THEN "en" ELSE ""]

\* Whether the loop body raises on this entry: result.get on a value that is
\* no dict, or text.split() on a snippet that is no string.
EntryRaises(entry) == entry.t # "obj" \/ Get(entry.snippet, "x").t # "str"

\* One pass of the loop body (lines 65-72) on an entry that does not raise.
ProcessEntry(entry) ==
    [selected |-> FALSE,
     title |-> Get(entry.title, "No title"),
     summary |-> JStr(truncate_summary(Get(entry.snippet, "No summary available").s,
                                       DefaultMaxWords)),
     url |-> Get(entry.link, "No URL available")]

Outcome(raised, error, ret, request) ==
    [raised |-> raised, error |-> error, ret |-> ret, request |-> request]

\* A deliberately wrong variant, which the property below must reject: every entry of the response is processed.
Taken_all(items, num_results) == items

\* results[:num_results]
Taken(items, num_results) == Prefix(items, num_results)

\* raised: the exception that leaves the function ("none": it returned);
\* error: the st.error it showed ("request": line 77, "processing": line 80);
\* ret: the list it returned; request: the GET it issued.
search_serpapi(query, api_key, num_results, region, resp, env) ==
    LET request == Params(query, api_key, num_results, region)
        taken == Taken(resp.organic.items, num_results)
    IN  CASE resp.kind \in {"network_error", "http_error"} ->
                Outcome("none", "request", <<>>, request)
          [] resp.kind = "invalid_json" ->
                IF env.json_error_is_request_exception
                THEN Outcome("none", "request", <<>>, request)
                ELSE Outcome("ValueError", "none", <<>>, request)
          [] resp.kind = "json_not_object" ->
                Outcome("AttributeError", "none", <<>>, request)
          [] resp.kind = "json_object" /\ resp.organic.t = "missing" ->
                Outcome("none", "none", <<>>, request)
          [] resp.kind = "json_object" /\ resp.organic.t \in {"null", "num"} ->
                Outcome("TypeError", "none", <<>>, request)
          [] resp.kind = "json_object" /\ resp.organic.t = "obj" ->
                IF env.slice_is_hashable
                THEN Outcome("none", "processing", <<>>, request)
                ELSE Outcome("TypeError", "none", <<>>, request)
          [] resp.kind = "json_object" /\ resp.organic.t \in {"list", "str"} ->
                IF \E i \in 1..Len(taken) : EntryRaises(taken[i])
                THEN Outcome("AttributeError", "none", <<>>, request)
                ELSE Outcome("none", "none",
                             [i \in 1..Len(taken) |-> ProcessEntry(taken[i])], request)

-----------------------------------------------------------------------------
(* save_selected_results                                                   *)

FilenameQueryChars == 30
SeparatorWidth == 50

\* The decimal digits of n, zero-padded (or cut) to width characters.
RECURSIVE Pad(_, _)
Pad(n, width) ==
    IF width = 0 THEN "" ELSE Pad(n \div 10, width - 1) \o Ch(Digits, (n % 10) + 1)

\* now.strftime("%Y%m%d_%H%M%S") for now = [year, month, day, hour, minute, second].
Strftime(now) ==
    Pad(now.year, 4) \o Pad(now.month, 2) \o Pad(now.day, 2) \o "_"
    \o Pad(now.hour, 2) \o Pad(now.minute, 2) \o Pad(now.second, 2)

\* Lines 109-110.
RegionStr(selected_regions) ==
    Replace(Lower(IF selected_regions # <<>> THEN Join("_", selected_regions) ELSE "global"),
            " ", "_")

words_to_remove == <<"market", "trends", "analysis", "in">>

\* The loop of lines 118-119 over the words still to remove.
RECURSIVE RemoveWords(_, _)
RemoveWords(clean_query, words) ==
    IF words = <<>> THEN clean_query
    ELSE RemoveWords(Replace(clean_query, words[1], ""), Tail(words))

\* A deliberately wrong variant, which the property below must reject: the underscores left by the removed words are not collapsed.
CleanQuery_no_collapse(search_query) ==
    RemoveWords(Replace(Strip(KeepFilenameChars(Prefix(search_query, FilenameQueryChars))),
                        " ", "_"),
                words_to_remove)

\* Lines 113-122.
CleanQuery(search_query) ==
    LET kept == Strip(KeepFilenameChars(Prefix(search_query, FilenameQueryChars)))
        underscored == Replace(kept, " ", "_")
        removed == RemoveWords(underscored, words_to_remove)
    IN  Join("_", NonEmpty(SplitOn(removed, "_")))

\* df[df['selected']].drop('selected', axis=1)
SelectedRows(df) ==
    LET chosen == SelectSeq(df, LAMBDA row : row.selected)
    IN  [i \in 1..Len(chosen) |->
            [title |-> chosen[i].title, summary |-> chosen[i].summary, url |-> chosen[i].url]]

\* "#" + "=" * 50
SeparatorLine == "#" \o Repeat("=", SeparatorWidth)

NoFile == [written |-> FALSE, name |-> "", header |-> <<>>, columns |-> <<>>, rows |-> <<>>]

\* The file of lines 130-137: the four header lines, then to_csv's column
\* row and the selected rows.
ExportFile(filename, search_query, selected_regions, timestamp, selected_df) ==
    [written |-> TRUE,
     name |-> filename,
     header |-> << "# Search Query: " \o search_query,
                   "# Regions: " \o Join(", ", selected_regions),
                   "# Timestamp: " \o timestamp,
                   SeparatorLine >>,
     columns |-> <<"title", "summary", "url">>,
     rows |-> selected_df]

\* What the function returns (filename) and the file it leaves on disk.
save_selected_results(df, search_query, selected_regions, now) ==
    LET timestamp == Strftime(now)
        filename == RegionStr(selected_regions) \o "_" \o CleanQuery(search_query)
                    \o "_" \o timestamp \o ".csv"
    IN  [filename |-> filename,
         file |-> ExportFile(filename, search_query, selected_regions, timestamp,
                             SelectedRows(df))]

-----------------------------------------------------------------------------
(* The state of the page.                                                  *)

None == [is_none |-> TRUE, rows |-> <<>>]
DataFrame(rows) == [is_none |-> FALSE, rows |-> rows]

NoOrigin == [known |-> FALSE, query |-> "", regions |-> <<>>]

\* A script run of main(): kind ("start", "rerender", "search", "save");
\* api_key: the key a search read from the sidebar ("" in other runs);
\* messages: the st.error / st.warning / st.success it showed; raised: the
\* exception that ended it ("none": it ran to its end or returned);
\* requests: the GETs it issued; returned / ret: whether search_serpapi
\* returned, and what; filename / file: what save_selected_results returned
\* and wrote; shown: whether it rendered the results table and Save button.
Run(kind, api_key, messages, raised, requests, returned, ret, filename, file, shown) ==
    [kind |-> kind, api_key |-> api_key, messages |-> messages, raised |-> raised, requests |-> requests,
     returned |-> returned, ret |-> ret, filename |-> filename, file |-> file,
     shown |-> shown]

NoCall == [fn |-> "none"]
NoResult == [done |-> FALSE]

MinNumResults == 1
DefaultNumResults == 10
MaxNumResults == 20

\* The values the model's user gives the widgets.
AppRegions == {"Poland", "France"}
AppTargets == {"luxury travel market"}
AppTerms == {"", "hotels"}
ApiKeys == {"", "key"}
NumChoices == {MinNumResults, DefaultNumResults}

\* The page before its first interaction.
AppInit ==
    /\ region_checked = {}
    /\ target_checked = {}
    /\ terms_input = ""
    /\ search_results = None
    /\ edited_selected = {}
    /\ origin = NoOrigin
    /\ run = Run("start", "", {}, "none", <<>>, FALSE, <<>>, "", NoFile, FALSE)

-----------------------------------------------------------------------------
(* Direct calls of truncate_summary.                                       *)

TruncateAlphabet == "a \n"
SixtyWords == Repeat("w ", 59) \o "w"

TruncateCalls ==
    [fn : {"truncate_summary"},
     text : StringsUpTo(TruncateAlphabet, MaxTextLen),
     max_words : 0..MaxWords]
    \cup { [fn |-> "truncate_summary", text |-> SixtyWords, max_words |-> DefaultMaxWords] }

InitTruncate == AppInit /\ call \in TruncateCalls /\ result = NoResult

ApplyTruncate ==
    /\ call.fn = "truncate_summary"
    /\ ~result.done
    /\ result' = [done |-> TRUE, value |-> truncate_summary(call.text, call.max_words)]
    /\ UNCHANGED <<app_vars, call>>

SpecTruncate == InitTruncate /\ [][ApplyTruncate]_vars

\* C7, as the code has it: a text of at most max_words words comes back unchanged;
\* a longer one comes back as its first max_words words joined by single
\* spaces with "..." appended to the last of them, so the result splits
\* into max_words tokens (a single token "..." when max_words is 0).
C7_TruncateKeepsMaxWordsTokens ==
    result.done =>
        LET words == Split(call.text)
        IN  IF Len(words) <= call.max_words
            THEN result.value = call.text
            ELSE /\ result.value = Join(" ", SubSeq(words, 1, call.max_words)) \o "..."
                 /\ Len(Split(result.value)) =
                        IF call.max_words = 0 THEN 1 ELSE call.max_words

\* C7 witness: the sixty-word text cut at fifty words splits into fifty tokens.
C7_Witness ==
    /\ result.done
    /\ call.max_words = 50
    /\ Len(Split(call.text)) = 60
    /\ Len(Split(result.value)) = 50

\* C7 as stated: a truncated result splits into max_words + 1 tokens.
C7_OriginalTokenCount ==
    result.done =>
        LET words == Split(call.text)
        IN  IF Len(words) <= call.max_words
            THEN result.value = call.text
            ELSE /\ result.value = Join(" ", SubSeq(words, 1, call.max_words)) \o "..."
                 /\ Len(Split(result.value)) = call.max_words + 1

-----------------------------------------------------------------------------
(* Direct calls of search_serpapi.                                         *)

FullHit == Hit(JStr("Title"), JStr("a short snippet"), JStr("http://u"))
BareHit == Hit(JMissing, JMissing, JMissing)
LongHit == Hit(JStr("Long"), JStr(SixtyWords), JMissing)
NullSnippetHit == Hit(JStr("Title"), JNull, JStr("http://u"))
NullTitleHit == Hit(JNull, JStr("a short snippet"), JStr("http://u"))

Entries == {FullHit, BareHit, LongHit, NullSnippetHit, NullTitleHit, NonObject}

SeqsUpTo(S, n) == UNION { [1..k -> S] : k \in 0..n }

Responses ==
    { Response(kind, "missing", <<>>) :
        kind \in {"network_error", "http_error", "invalid_json", "json_not_object"} }
    \cup { Response("json_object", t, <<>>) : t \in {"missing", "null", "num", "obj"} }
    \cup { Response("json_object", "str", <<NonObject>>) }
    \cup { Response("json_object", "list", items) : items \in SeqsUpTo(Entries, MaxHits) }

SearchCalls ==
    [fn : {"search_serpapi"},
     query : {"in Poland"},
     api_key : {"key"},
     num_results : {MinNumResults, MinNumResults + 1, MaxNumResults},
     region : {"", "pl"},
     resp : Responses,
     env : Envs]

InitSearch == AppInit /\ call \in SearchCalls /\ result = NoResult

ApplySearch ==
    /\ call.fn = "search_serpapi"
    /\ ~result.done
    /\ result' = [done |-> TRUE,
                  value |-> search_serpapi(call.query, call.api_key, call.num_results,
                                           call.region, call.resp, call.env)]
    /\ UNCHANGED <<app_vars, call>>

SpecSearch == InitSearch /\ [][ApplySearch]_vars

\* A successful response: a JSON object whose organic_results is a list of
\* objects, each field of which is a string or absent.
WellFormed(resp) ==
    /\ resp.kind = "json_object"
    /\ resp.organic.t = "list"
    /\ \A i \in 1..Len(resp.organic.items) :
          LET hit == resp.organic.items[i]
          IN  /\ hit.t = "obj"
              /\ {hit.title.t, hit.snippet.t, hit.link.t} \subseteq {"str", "missing"}

\* C2 as stated: whatever the provider answers, search_serpapi returns to
\* its caller (no exception leaves it); for every answer that is not a
\* successful response it has shown an error and returns the empty list.
C2_NeverRaises ==
    result.done =>
        /\ result.value.raised = "none"
        /\ ~WellFormed(call.resp) => (result.value.error # "none" /\ result.value.ret = <<>>)

\* C5: on a successful response with h hits, search_serpapi returns
\* min(h, num_results) rows, the i-th built from the i-th hit, each with
\* selected = False and title / summary / url taken from the hit's title /
\* snippet / link or the placeholder; the summary is the snippet (or its
\* placeholder) cut to fifty words.
C5_RowsFollowHits ==
    (result.done /\ WellFormed(call.resp)) =>
        LET hits == call.resp.organic.items
            rows == result.value.ret
            Text(field, placeholder) == IF field.t = "missing" THEN placeholder ELSE field.s
            Cut(text) == IF Len(Split(text)) <= 50 THEN text
                         ELSE Join(" ", SubSeq(Split(text), 1, 50)) \o "..."
        IN  /\ result.value.raised = "none"
            /\ Len(rows) = Min(Len(hits), call.num_results)
            /\ \A i \in 1..Len(rows) :
                  /\ rows[i].selected = FALSE
                  /\ rows[i].title = JStr(Text(hits[i].title, "No title"))
                  /\ rows[i].summary = JStr(Cut(Text(hits[i].snippet, "No summary available")))
                  /\ rows[i].url = JStr(Text(hits[i].link, "No URL available"))

\* C5 witness: two hits, one requested; the first lacks every field and
\* comes back as the only row, made of the placeholders.
C5_Witness ==
    /\ result.done
    /\ WellFormed(call.resp)
    /\ call.resp.organic.items = <<BareHit, LongHit>>
    /\ call.num_results = 1
    /\ result.value.ret = << [selected |-> FALSE, title |-> JStr("No title"),
                              summary |-> JStr("No summary available"),
                              url |-> JStr("No URL available")] >>

-----------------------------------------------------------------------------
(* Direct calls of build_search_query, beside the query the page builds    *)
(* when the same boxes are ticked in the same order.                       *)

BuildRegions == {"Poland", "France", "Saudi Arabia"}
BuildTargets == {"luxury travel market", "airline news"}
BuildTerms == {"", "hotels"}

\* Two listings (a, b) of one set of regions and one set of targets.
BuildCalls ==
    UNION { [fn : {"build_search_query"},
             regions_a : Orders(R), regions_b : Orders(R),
             targets_a : Orders(T), targets_b : Orders(T),
             additional_terms : BuildTerms] :
            R \in SUBSET BuildRegions, T \in SUBSET BuildTargets }

\* The query main builds (line 200) once the boxes listed in ticked_regions
\* and ticked_targets have been ticked, in that order.
PageQuery(ticked_regions, ticked_targets, terms) ==
    build_search_query(CheckedInOrder(REGIONS, Range(ticked_regions)),
                       CheckedInOrder(TARGETS, Range(ticked_targets)), terms)

InitBuild == AppInit /\ call \in BuildCalls /\ result = NoResult

ApplyBuild ==
    /\ call.fn = "build_search_query"
    /\ ~result.done
    /\ result' =
          [done |-> TRUE,
           direct_a |-> build_search_query(call.regions_a, call.targets_a,
                                           call.additional_terms),
           direct_b |-> build_search_query(call.regions_b, call.targets_b,
                                           call.additional_terms),
           page_a |-> PageQuery(call.regions_a, call.targets_a, call.additional_terms),
           page_b |-> PageQuery(call.regions_b, call.targets_b, call.additional_terms)]
    /\ UNCHANGED <<app_vars, call>>

SpecBuild == InitBuild /\ [][ApplyBuild]_vars

\* The index at which sub first occurs in s; 0 when it does not.
Find(s, sub) ==
    LET at == { i \in 1..(Len(s) - Len(sub) + 1) : SubSeq(s, i, i + Len(sub) - 1) = sub }
    IN  IF at = {} THEN 0 ELSE CHOOSE i \in at : \A j \in at : i <= j

IndexIn(catalog, key) == CHOOSE i \in 1..Len(catalog) : catalog[i][1] = key

\* C4 as stated: two listings of the same regions and targets give
\* build_search_query the same query.
C4_OriginalOrderIndependent ==
    result.done => result.direct_a = result.direct_b

\* C4, as the code has it: build_search_query lists the targets and the regions in
\* the order of the lists it is given; the query of the page is the same
\* for every order of ticking, because main collects the ticked boxes in
\* catalog order: targets first, regions next, each in catalog order.
C4_PageQueryInCatalogOrder ==
    result.done =>
        /\ result.page_a = result.page_b
        /\ \A r1, r2 \in Range(call.regions_a) :
              IndexIn(REGIONS, r1) < IndexIn(REGIONS, r2) =>
                  /\ 0 < Find(result.page_a, "in " \o r1)
                  /\ Find(result.page_a, "in " \o r1) < Find(result.page_a, "in " \o r2)
        /\ \A t1, t2 \in Range(call.targets_a) :
              IndexIn(TARGETS, t1) < IndexIn(TARGETS, t2) =>
                  /\ 0 < Find(result.page_a, Lookup(TARGETS, t1))
                  /\ Find(result.page_a, Lookup(TARGETS, t1))
                        < Find(result.page_a, Lookup(TARGETS, t2))
        /\ \A t \in Range(call.targets_a), r \in Range(call.regions_a) :
              Find(result.page_a, Lookup(TARGETS, t)) < Find(result.page_a, "in " \o r)
        /\ \A i, j \in 1..Len(call.regions_a) :
              i < j => /\ 0 < Find(result.direct_a, "in " \o call.regions_a[i])
                       /\ Find(result.direct_a, "in " \o call.regions_a[i])
                             < Find(result.direct_a, "in " \o call.regions_a[j])
        /\ (Range(call.regions_a) = {"Poland", "France"} /\ call.targets_a = <<>>
            /\ call.additional_terms = "")
              => result.page_a = "in Poland OR in France"

\* C4 witness: France listed before Poland: the function follows the
\* listing, the page follows the catalog.
C4_Witness ==
    /\ result.done
    /\ call.regions_a = <<"France", "Poland">>
    /\ call.regions_b = <<"Poland", "France">>
    /\ result.direct_a = "in France OR in Poland"
    /\ result.direct_b = "in Poland OR in France"
    /\ result.page_a = "in Poland OR in France"

-----------------------------------------------------------------------------
(* Direct calls of save_selected_results.                                  *)

ExportAlphabet == "in_ !"

\* Queries the page can build, and queries in which removing one word
\* brings another about, the cut at thirty characters leaves a blank, or
\* the case differs from the words removed.
SampleQueries ==
    { "luxury travel market trends analysis in Poland",
      "airline industry news updates in Czech Republic OR in France hotels",
      "imarketn", "trmarketends", "a-b  c_d",
      "Market IN Analysis",
      Repeat("a", 29) \o " bc" }

Row(selected, title) ==
    [selected |-> selected, title |-> JStr(title), summary |-> JStr("a short snippet"),
     url |-> JStr("http://u")]

Frames ==
    { <<Row(TRUE, "one")>>, <<Row(FALSE, "one")>>,
      <<Row(FALSE, "one"), Row(TRUE, "two")>>, <<Row(FALSE, "one"), Row(FALSE, "two")>> }

Clocks ==
    { [year |-> 2024, month |-> 1, day |-> 5, hour |-> 9, minute |-> 3, second |-> 7],
      [year |-> 2025, month |-> 12, day |-> 31, hour |-> 23, minute |-> 59, second |-> 59] }

RegionLists == { <<>>, <<"Poland">>, <<"Czech Republic", "Saudi Arabia">> }

ExportCalls ==
    [fn : {"save_selected_results"},
     df : {<<Row(TRUE, "one")>>},
     search_query : StringsUpTo(ExportAlphabet, MaxQueryLen),
     selected_regions : RegionLists,
     now : {CHOOSE now \in Clocks : now.year = 2024}]
    \cup
    [fn : {"save_selected_results"},
     df : Frames,
     search_query : SampleQueries,
     selected_regions : RegionLists,
     now : Clocks]

InitExport == AppInit /\ call \in ExportCalls /\ result = NoResult

ApplyExport ==
    /\ call.fn = "save_selected_results"
    /\ ~result.done
    /\ result' = [done |-> TRUE,
                  value |-> save_selected_results(call.df, call.search_query,
                                                  call.selected_regions, call.now)]
    /\ UNCHANGED <<app_vars, call>>

SpecExport == InitExport /\ [][ApplyExport]_vars

\* C8: the filename is region_str + "_" + clean_query + "_" + timestamp +
\* ".csv": region_str the regions joined by "_", lower-cased, blanks
\* replaced by "_" ("global" without regions); clean_query the first thirty
\* characters of the query, only alphanumerics, blanks, hyphens and
\* underscores kept, trimmed, blanks replaced by "_", then "market",
\* "trends", "analysis", "in" removed in that order, then its non-empty
\* "_"-separated segments rejoined with "_", so that it neither starts nor
\* ends with "_" nor holds "__"; timestamp is YYYYMMDD_HHMMSS.
C8_FilenameDerivation ==
    result.done =>
        LET region_str ==
                IF call.selected_regions = <<>> THEN "global"
                ELSE Replace(Lower(Join("_", call.selected_regions)), " ", "_")
            kept == Strip(KeepFilenameChars(SubSeq(call.search_query, 1,
                                                   Min(30, Len(call.search_query)))))
            cleaned == Replace(Replace(Replace(Replace(Replace(kept, " ", "_"),
                                  "market", ""), "trends", ""), "analysis", ""), "in", "")
            clean_query == Join("_", SelectSeq(SplitOn(cleaned, "_"), LAMBDA seg : seg # ""))
            timestamp == Pad(call.now.year, 4) \o Pad(call.now.month, 2) \o Pad(call.now.day, 2)
                         \o "_" \o Pad(call.now.hour, 2) \o Pad(call.now.minute, 2)
                         \o Pad(call.now.second, 2)
            name == result.value.filename
            stem == SubSeq(name, Len(region_str) + 2, Len(name) - 20)
        IN  /\ name = region_str \o "_" \o clean_query \o "_" \o timestamp \o ".csv"
            /\ result.value.file.name = name
            /\ stem = clean_query
            /\ stem # "" => (Ch(stem, 1) # "_" /\ Ch(stem, Len(stem)) # "_")
            /\ Find(stem, "__") = 0

\* C8 witness: a query of the page; the cut falls inside "analysis", two
\* words go and the underscores they leave are collapsed.
C8_Witness ==
    /\ result.done
    /\ call.search_query = "luxury travel market trends analysis in Poland"
    /\ call.selected_regions = <<"Poland">>
    /\ result.value.filename = "poland_luxury_travel_an_20240105_090307.csv"

-----------------------------------------------------------------------------
(* The page: every action is one script run of main(), started by one      *)
(* interaction.  A widget that a run does not render loses its state, so a *)
(* run that returns or raises before st.data_editor clears the ticks.      *)

\* Lines 149-152 and 160-163.
selected_regions == CheckedInOrder(REGIONS, region_checked)
selected_targets == CheckedInOrder(TARGETS, target_checked)

\* Line 199: search_query is assigned only under this condition.
QueryBound(regions, targets) == regions # <<>> \/ targets # <<>>

\* Line 200.
search_query == build_search_query(selected_regions, selected_targets, terms_input)

\* edited_df: the rows with the ticks of the data editor.
edited_df ==
    [i \in 1..Len(search_results.rows) |->
        [search_results.rows[i] EXCEPT !.selected = (i \in edited_selected)]]

\* A deliberately wrong variant, which the property below must reject: the save goes ahead whatever is ticked.
AnySelected_always(df) == TRUE

\* Line 274: edited_df['selected'].any()
AnySelected(df) == \E i \in 1..Len(df) : df[i].selected

\* Line 217.
RegionCode(regions) == IF regions # <<>> THEN Lookup(REGIONS, regions[1]) ELSE ""

\* The st.error of search_serpapi, if it showed one.
Shown(error) == IF error = "none" THEN {} ELSE {"error: " \o error}

\* A run that no button started: lines 142-205, then the table if there
\* are results.
Rerender == Run("rerender", "", {}, "none", <<>>, FALSE, <<>>, "", NoFile, ~search_results.is_none)

ToggleRegion(region) ==
    /\ region_checked' = IF region \in region_checked
                         THEN region_checked \ {region}
                         ELSE region_checked \cup {region}
    /\ run' = Rerender
    /\ UNCHANGED <<target_checked, terms_input, search_results,
                   edited_selected, origin, call, result>>

ToggleTarget(target) ==
    /\ target_checked' = IF target \in target_checked
                         THEN target_checked \ {target}
                         ELSE target_checked \cup {target}
    /\ run' = Rerender
    /\ UNCHANGED <<region_checked, terms_input, search_results,
                   edited_selected, origin, call, result>>

EditTerms(terms) ==
    /\ terms # terms_input
    /\ terms_input' = terms
    /\ run' = Rerender
    /\ UNCHANGED <<region_checked, target_checked, search_results,
                   edited_selected, origin, call, result>>

\* A tick in the data editor; the table is on the page.
ToggleRow(i) ==
    /\ run.shown
    /\ i \in 1..Len(search_results.rows)
    /\ edited_selected' = IF i \in edited_selected
                          THEN edited_selected \ {i}
                          ELSE edited_selected \cup {i}
    /\ run' = Rerender
    /\ UNCHANGED <<region_checked, target_checked, terms_input,
                   search_results, origin, call, result>>

\* The Search button, lines 207-223, with the provider answering resp.  The
\* API key and the slider are read by this handler alone: their values at
\* the click are its inputs api_key and num_results.
ClickSearch(api_key, num_results, resp, env) ==
    /\ UNCHANGED <<region_checked, target_checked, terms_input, call, result>>
    /\ IF api_key = ""
       THEN \* lines 208-210
            /\ run' = Run("search", api_key, {"error: enter your API key"}, "none", <<>>, FALSE,
                          <<>>, "", NoFile, FALSE)
            /\ edited_selected' = {}
            /\ UNCHANGED <<search_results, origin>>
       ELSE IF ~(selected_regions # <<>> \/ selected_targets # <<>> \/ terms_input # "")
       THEN \* lines 212-214
            /\ run' = Run("search", api_key, {"error: select a region, target or terms"}, "none",
                          <<>>, FALSE, <<>>, "", NoFile, FALSE)
            /\ edited_selected' = {}
            /\ UNCHANGED <<search_results, origin>>
       ELSE IF ~QueryBound(selected_regions, selected_targets)
       THEN \* line 218 reads search_query, which line 200 never assigned
            /\ run' = Run("search", api_key, {}, "NameError", <<>>, FALSE, <<>>, "", NoFile, FALSE)
            /\ edited_selected' = {}
            /\ UNCHANGED <<search_results, origin>>
       ELSE \E found \in { search_serpapi(search_query, api_key, num_results,
                                          RegionCode(selected_regions), resp, env) } :
            IF found.raised # "none"
            THEN /\ run' = Run("search", api_key, {}, found.raised, <<found.request>>, FALSE,
                               <<>>, "", NoFile, FALSE)
                 /\ edited_selected' = {}
                 /\ UNCHANGED <<search_results, origin>>
            ELSE IF found.ret # <<>>
            THEN \* line 221
                 /\ search_results' = DataFrame(found.ret)
                 /\ origin' = [known |-> TRUE, query |-> found.request.q,
                               regions |-> selected_regions]
                 /\ edited_selected' = IF search_results = DataFrame(found.ret)
                                       THEN edited_selected ELSE {}
                 /\ run' = Run("search", api_key, Shown(found.error), "none", <<found.request>>,
                               TRUE, found.ret, "", NoFile, TRUE)
            ELSE \* line 223
                 /\ run' = Run("search", api_key, Shown(found.error) \cup {"warning: no results"},
                               "none", <<found.request>>, TRUE, <<>>, "", NoFile,
                               ~search_results.is_none)
                 /\ UNCHANGED <<search_results, edited_selected, origin>>

\* The Save button, lines 273-287; the button is on the page.
ClickSave(now) ==
    /\ run.shown
    /\ UNCHANGED <<region_checked, target_checked, terms_input,
                   search_results, edited_selected, origin, call, result>>
    /\ IF ~AnySelected(edited_df)
       THEN run' = Run("save", "", {"warning: select at least one result"}, "none", <<>>,
                       FALSE, <<>>, "", NoFile, TRUE)
       ELSE IF ~QueryBound(selected_regions, selected_targets)
       THEN \* line 275 reads search_query, which line 200 never assigned
            run' = Run("save", "", {}, "NameError", <<>>, FALSE, <<>>, "", NoFile, TRUE)
       ELSE \E saved \in { save_selected_results(edited_df, search_query,
                                                 selected_regions, now) } :
                run' = Run("save", "", {"success: saved"}, "none", <<>>, FALSE, <<>>,
                           saved.filename, saved.file, TRUE)

\* What the provider answers the page's searches.
AppResponses ==
    { Response("network_error", "missing", <<>>),
      Response("json_object", "list", <<>>),
      Response("json_object", "list", <<FullHit>>),
      Response("json_object", "list", <<BareHit, FullHit>>),
      Response("json_object", "list", <<NonObject>>) }

\* None of AppResponses depends on the installation.
AppEnv == [json_error_is_request_exception |-> TRUE, slice_is_hashable |-> TRUE]

AppClocks == { now \in Clocks : now.year = 2024 }

Init == AppInit /\ call = NoCall /\ result = NoResult

Next ==
    \/ \E region \in AppRegions : ToggleRegion(region)
    \/ \E target \in AppTargets : ToggleTarget(target)
    \/ \E terms \in AppTerms : EditTerms(terms)
    \/ \E i \in 1..Len(search_results.rows) : ToggleRow(i)
    \/ \E api_key \in ApiKeys, num_results \in NumChoices, resp \in AppResponses :
          ClickSearch(api_key, num_results, resp, AppEnv)
    \/ \E now \in AppClocks : ClickSave(now)

Spec == Init /\ [][Next]_vars

\* C1 as stated: once a search that was accepted has resolved, the rows of
\* the session are the rows that search returned, none of them older.
C1_ResultSetIsLastSearch ==
    (run.kind = "search" /\ run.returned) => search_results.rows = run.ret

\* C3 as stated: a click on Search is rejected exactly when the API key is
\* empty or regions, targets and terms are all empty; rejected, it shows an
\* error, sends nothing and leaves the rows alone; otherwise it sends
\* exactly one request, whose q is the query built from the selections.
C3_TriggerAcceptance ==
    [][ run'.kind = "search" =>
          LET rejected == run'.messages \cap {"error: enter your API key",
                                              "error: select a region, target or terms"} # {}
              nothing_chosen == region_checked = {} /\ target_checked = {} /\ terms_input = ""
          IN  /\ rejected <=> (run'.api_key = "" \/ nothing_chosen)
              /\ rejected => (run'.requests = <<>> /\ search_results' = search_results)
              /\ ~rejected =>
                    /\ Len(run'.requests) = 1
                    /\ run'.requests[1].q =
                          build_search_query(CheckedInOrder(REGIONS, region_checked),
                                             CheckedInOrder(TARGETS, target_checked),
                                             terms_input) ]_vars

\* C9 as stated: no run of the page ends in a NameError: whenever a search
\* is accepted or ticked rows are saved, search_query has been assigned.
C9_QueryDefined == run.raised # "NameError"

\* C10 as stated: a file the page writes names, in its header and in its
\* filename, the query and the regions of the search that produced the
\* rows it holds.
C10_ExportDescribesItsSearch ==
    run.file.written =>
        /\ origin.known
        /\ run.file.header[1] = "# Search Query: " \o origin.query
        /\ run.file.header[2] = "# Regions: " \o Join(", ", origin.regions)
        /\ StartsWith(run.file.name,
                      RegionStr(origin.regions) \o "_" \o CleanQuery(origin.query) \o "_")

-----------------------------------------------------------------------------
(* The page, beside direct calls of save_selected_results.                 *)

InitSave == Init \/ InitExport

\* The page runs where no direct call is being made.
PageStep == call = NoCall /\ Next

NextSave == PageStep \/ ApplyExport

SpecSave == InitSave /\ [][NextSave]_vars

NoneSelected(df) == \A i \in 1..Len(df) : ~df[i].selected

\* C6, as the code has it: a click on Save with no row ticked writes no file and
\* gets no filename, only a warning, because main checks the ticks before
\* it calls save_selected_results; the function itself does not check:
\* called with no row selected it writes the header and the column row and
\* returns the file's name.
C6_SaveButtonNeedsSelection ==
    /\ (run.kind = "save" /\ edited_selected = {}) =>
          /\ ~run.file.written
          /\ run.filename = ""
          /\ run.messages = {"warning: select at least one result"}
    /\ (call.fn = "save_selected_results" /\ result.done /\ NoneSelected(call.df)) =>
          /\ result.value.file.written
          /\ result.value.file.rows = <<>>
          /\ result.value.filename = result.value.file.name

\* C6 witness: results on the page, no row ticked, Save clicked.
C6_Witness ==
    /\ run.kind = "save"
    /\ search_results.rows # <<>>
    /\ edited_selected = {}
    /\ ~run.file.written

\* C6 as stated: with no row selected neither a click on Save nor
\* save_selected_results itself creates a file or returns a filename.
C6_OriginalNoFileWithoutSelection ==
    /\ (run.kind = "save" /\ edited_selected = {}) =>
          (~run.file.written /\ run.filename = "")
    /\ (call.fn = "save_selected_results" /\ result.done /\ NoneSelected(call.df)) =>
          (~result.value.file.written /\ result.value.filename = "")

====
